---- MODULE Spec2Model ----
(***************************************************************************)
(* State-machine model of the Autopilot page (pages/Autopilot/index.jsx):  *)
(* React state and refs of the component, the recorders it creates, and    *)
(* the /autopilot/run, /autopilot/confirm and /autopilot/adjust-time       *)
(* requests in flight.  Every handler is one action; the continuation of   *)
(* an await is a separate action that works on the values the handler's    *)
(* closure captured when the handler was invoked.                          *)
(*                                                                         *)
(* JS arrays are functions on 0..n-1 (the source's indices are kept), JS   *)
(* strings are sequences of tokens, null/undefined are the No... values.   *)
(***************************************************************************)
EXTENDS Integers, Sequences, FiniteSets, TLC

\* ---- bounds of the model ----
MaxRuns == 2
MaxConfirms == 2
MaxAdjusts == 1
MaxRecorders == 2
MaxPending == 2
MaxVoice == 2

\* ---- null / undefined ----
NoData == [isNull |-> TRUE]
NoIndex == -1
NoRunId == 0
NoRecorder == 0
NoText == <<"undefined">>
Absent == "undefined"
NoArray == [i \in {NoIndex} |-> NoData]
EmptyObject == [isEmptyObject |-> TRUE]

\* ---- JS strings as token sequences ----
IsSpace(tok) == tok \in {" ", "\n"}

RECURSIVE TrimStart(_)
TrimStart(s) == IF s # <<>> /\ IsSpace(Head(s)) THEN TrimStart(Tail(s)) ELSE s

RECURSIVE TrimEnd(_)
TrimEnd(s) ==
  IF s # <<>> /\ IsSpace(s[Len(s)]) THEN TrimEnd(SubSeq(s, 1, Len(s) - 1)) ELSE s

Trim(s) == TrimEnd(TrimStart(s))

\* ---- JS arrays as functions on 0..n-1 ----
Length(arr) == Cardinality(DOMAIN arr)
EmptyArray == [i \in {} |-> NoData]
Arr(seq) == [i \in 0..(Len(seq) - 1) |-> seq[i + 1]]

\* ---- data the collaborators can return, and the user can enter ----
Meeting == [action_type |-> "create_meeting", payload |-> [title |-> "v0", date |-> "v0"]]
Slack == [action_type |-> "send_slack_summary", payload |-> [channel |-> "v0"]]
ActionLists == {Arr(<<Meeting>>), Arr(<<Meeting, Slack>>)}
TwoMeetings == Arr(<<Meeting, Meeting>>)
PayloadFields == {"title", "date", "channel"}
EditValues == {"v1"}
Statuses == {"success", "failed", "blocked"}
InputTexts == {<<>>, <<"hello">>}
DraftTexts == {<<>>, <<"3pm">>}
Audios == {"", "AUDIO"}
Langs == {"en"}

VARIABLES
  inputText, isRecording, isProcessing, isConfirming,
  runResult, confirmResult, actionChecks, editedActions, replyDraft,
  rescheduleInputs, rescheduleLoading, rescheduleRecordingIndex,
  mediaRecorderRef, rescheduleRecorderRef,
  lang, mediaSupported,
  recorders, runReqs, confirmReqs, adjustReqs,
  nRun, nConfirm, nAdjust, nRec,
  latest, earlyReturn, notice,
  home, homeEnv

uiVars == <<inputText, isRecording, isProcessing, isConfirming,
            runResult, confirmResult, actionChecks, editedActions, replyDraft,
            rescheduleInputs, rescheduleLoading, rescheduleRecordingIndex>>
refVars == <<mediaRecorderRef, rescheduleRecorderRef>>
envVars == <<lang, mediaSupported, recorders, runReqs, confirmReqs, adjustReqs,
             nRun, nConfirm, nAdjust, nRec, latest>>
homeVars == <<home, homeEnv>>
vars == <<uiVars, refVars, envVars, homeVars, earlyReturn, notice>>

\* the state the component shows as "the run"
VisibleRun ==
  [runResult |-> runResult, replyDraft |-> replyDraft,
   editedActions |-> editedActions, actionChecks |-> actionChecks,
   confirmResult |-> confirmResult]

\* the Home page: its state and ref, and what surrounds it (the TTS configuration of
\* the build, window.speechSynthesis, the /tts and /voice calls, the recorders)
HomeInitial ==
  [hasStarted |-> FALSE, messages |-> <<>>, isRecording |-> FALSE,
   isProcessing |-> FALSE, mediaRecorderRef |-> NoRecorder]
HomeEnvInitial(mode, browserTts, speech) ==
  [TTS_MODE |-> mode, ENABLE_BROWSER_TTS |-> browserTts, speechSynthesis |-> speech,
   tts |-> "idle", ttsPosts |-> 0, spoken |-> 0,
   recorders |-> [r \in {} |-> "none"], voiceReqs |-> {}, nRec |-> 0, nVoice |-> 0]
TtsModes == {"backend", "browser", "auto", "off"}

InitPage ==
  /\ home = HomeInitial
  /\ inputText = <<>>
  /\ isRecording = FALSE
  /\ isProcessing = FALSE
  /\ isConfirming = FALSE
  /\ runResult = NoData
  /\ confirmResult = NoData
  /\ actionChecks = [i \in {} |-> TRUE]
  /\ editedActions = EmptyArray
  /\ replyDraft = EmptyObject
  /\ rescheduleInputs = [i \in {} |-> <<>>]
  /\ rescheduleLoading = [i \in {} |-> FALSE]
  /\ rescheduleRecordingIndex = NoIndex
  /\ mediaRecorderRef = NoRecorder
  /\ rescheduleRecorderRef = NoRecorder
  /\ recorders = [r \in {} |-> NoData]
  /\ runReqs = {}
  /\ confirmReqs = {}
  /\ adjustReqs = {}
  /\ nRun = 0
  /\ nConfirm = 0
  /\ nAdjust = 0
  /\ nRec = 0
  /\ latest = NoData
  /\ earlyReturn = "none"
  /\ notice = <<>>

\* a browser with navigator.mediaDevices.getUserMedia
Init ==
  /\ InitPage
  /\ lang \in Langs
  /\ mediaSupported = TRUE
  /\ homeEnv = HomeEnvInitial("backend", FALSE, TRUE)

\* a browser with or without it
InitDevices ==
  /\ InitPage
  /\ lang \in Langs
  /\ mediaSupported \in BOOLEAN
  /\ homeEnv = HomeEnvInitial("backend", FALSE, TRUE)

\* either language of the page
Locales == {"en", "zh"}
InitLocales ==
  /\ InitPage
  /\ lang \in Locales
  /\ mediaSupported = TRUE
  /\ homeEnv = HomeEnvInitial("backend", FALSE, TRUE)

\* every TTS configuration, with and without window.speechSynthesis
InitHome ==
  /\ InitPage
  /\ lang \in Langs
  /\ mediaSupported = TRUE
  /\ \E mode \in TtsModes : \E browserTts \in BOOLEAN : \E speech \in BOOLEAN :
       homeEnv = HomeEnvInitial(mode, browserTts, speech)

\* ---- what the page renders (the affordances' guards) ----
ResultsVisible == runResult # NoData /\ ~isProcessing
\* variant: the button tests the input for emptiness without trimming it
AnalyzeDisabled_NoTrim == inputText = <<>> \/ isProcessing
AnalyzeDisabled == Trim(inputText) = <<>> \/ isProcessing
anyChecked == \E i \in DOMAIN actionChecks : actionChecks[i]
\* variant: the button is disabled only while a confirm call is pending
ConfirmDisabled_OnlyWhileConfirming == isConfirming
ConfirmDisabled == ~anyChecked \/ isConfirming

\* asynchronous activities under way: requests in flight and recorders
Pending ==
  Cardinality(runReqs) + Cardinality(confirmReqs) + Cardinality(adjustReqs)
    + Cardinality(DOMAIN recorders)
RescheduleIndices == IF confirmResult = NoData THEN {} ELSE DOMAIN confirmResult.results

\* ---- TextArea onChange ----
SetInputText(txt) ==
  /\ ~isProcessing
  /\ txt # inputText
  /\ inputText' = txt
  /\ earlyReturn' = "none"
  /\ notice' = <<>>
  /\ UNCHANGED <<isRecording, isProcessing, isConfirming, runResult, confirmResult,
                 actionChecks, editedActions, replyDraft, rescheduleInputs,
                 rescheduleLoading, rescheduleRecordingIndex, refVars, envVars, homeVars>>

\* ---- handleRun up to its await: the request it issues ----
RunRequest(mode, audioB64, overrideText, closureInput, owner) ==
  [id |-> nRun + 1,
   mode |-> mode,
   text |-> IF mode = "audio" THEN NoText
            ELSE IF overrideText # NoText THEN overrideText ELSE closureInput,
   audio_base64 |-> IF mode = "audio" THEN audioB64 ELSE Absent,
   locale |-> lang,
   owner |-> owner,
   before |-> VisibleRun]

handleRunIssue(mode, audioB64, overrideText, closureInput, owner) ==
  /\ nRun < MaxRuns
  /\ isProcessing' = TRUE
  /\ runResult' = NoData
  /\ confirmResult' = NoData
  /\ runReqs' = runReqs \cup {RunRequest(mode, audioB64, overrideText, closureInput, owner)}
  /\ nRun' = nRun + 1
  /\ latest' = NoData

\* variant: a new analysis also resets the flag of the confirmation under way
ClickAnalyze_ResetsConfirming ==
  /\ ~AnalyzeDisabled
  /\ Pending < MaxPending
  /\ handleRunIssue("text", Absent, NoText, inputText, NoIndex)
  /\ isConfirming' = FALSE
  /\ earlyReturn' = "none"
  /\ notice' = <<>>
  /\ UNCHANGED <<inputText, isRecording, actionChecks, editedActions,
                 replyDraft, rescheduleInputs, rescheduleLoading,
                 rescheduleRecordingIndex, refVars, lang, mediaSupported, homeVars, recorders, confirmReqs,
                 adjustReqs, nConfirm, nAdjust, nRec>>

\* Analyze button: onClick={() => handleRun("text")}
ClickAnalyze ==
  /\ ~AnalyzeDisabled
  /\ Pending < MaxPending
  /\ handleRunIssue("text", Absent, NoText, inputText, NoIndex)
  /\ earlyReturn' = "none"
  /\ notice' = <<>>
  /\ UNCHANGED <<inputText, isRecording, isConfirming, actionChecks, editedActions,
                 replyDraft, rescheduleInputs, rescheduleLoading,
                 rescheduleRecordingIndex, refVars, lang, mediaSupported, homeVars, recorders, confirmReqs,
                 adjustReqs, nConfirm, nAdjust, nRec>>

\* ---- /autopilot/run responses ----
EmptyRunData == [run_id |-> NoRunId, reply_draft |-> NoData, actions_preview |-> NoArray]
NoIdRunData == [run_id |-> NoRunId, reply_draft |-> NoData, actions_preview |-> Arr(<<Meeting>>)]
RunDataOf(req, al) ==
  [run_id |-> req.id, reply_draft |-> [subject |-> req.id], actions_preview |-> al]
RunResponses(req) ==
  {EmptyRunData, NoIdRunData} \cup {RunDataOf(req, al) : al \in ActionLists \cup {TwoMeetings}}
\* the responses the general specifications draw from
UsualRunResponses(req) ==
  {EmptyRunData, NoIdRunData} \cup {RunDataOf(req, al) : al \in ActionLists}

ActionsPreviewOf(data) ==
  IF data.actions_preview = NoArray THEN EmptyArray ELSE data.actions_preview

\* handleReschedule's finally, run when the handleRun it awaited has settled
RescheduleFinally(owner) ==
  IF owner = NoIndex THEN rescheduleLoading
  ELSE [i \in (DOMAIN rescheduleLoading) \cup {owner} |->
          IF i = owner THEN FALSE ELSE rescheduleLoading[i]]

\* variant: flags of the previous run survive at the indices the new run also has
AppliedRun_KeepsChecks(data) ==
  [runResult |-> data,
   replyDraft |-> IF data.reply_draft = NoData THEN EmptyObject ELSE data.reply_draft,
   actionChecks |-> [i \in DOMAIN ActionsPreviewOf(data) |->
                       IF i \in DOMAIN actionChecks THEN actionChecks[i] ELSE TRUE],
   editedActions |-> ActionsPreviewOf(data)]

\* the state handleRun's success path sets
AppliedRun(data) ==
  [runResult |-> data,
   replyDraft |-> IF data.reply_draft = NoData THEN EmptyObject ELSE data.reply_draft,
   actionChecks |-> [i \in DOMAIN ActionsPreviewOf(data) |-> TRUE],
   editedActions |-> ActionsPreviewOf(data)]

\* variant: the success path goes on to execute the previewed actions
RunResolve_AutoConfirm(req, data) ==
  /\ req \in runReqs
  /\ data \in RunResponses(req)
  /\ nConfirm < MaxConfirms
  /\ runReqs' = runReqs \ {req}
  /\ runResult' = AppliedRun(data).runResult
  /\ replyDraft' = AppliedRun(data).replyDraft
  /\ actionChecks' = AppliedRun(data).actionChecks
  /\ editedActions' = AppliedRun(data).editedActions
  /\ isProcessing' = FALSE
  /\ rescheduleLoading' = RescheduleFinally(req.owner)
  /\ latest' = IF req.id = nRun THEN data ELSE latest
  /\ confirmReqs' = confirmReqs \cup
       {[id |-> nConfirm + 1, run_id |-> data.run_id,
         actions |-> [i \in DOMAIN ActionsPreviewOf(data) |->
                        [action_type |-> ActionsPreviewOf(data)[i].action_type,
                         payload |-> ActionsPreviewOf(data)[i].payload,
                         confirmed |-> TRUE, skip |-> FALSE]]]}
  /\ nConfirm' = nConfirm + 1
  /\ isConfirming' = TRUE
  /\ earlyReturn' = "none"
  /\ notice' = <<>>
  /\ UNCHANGED <<inputText, isRecording, confirmResult, rescheduleInputs,
                 rescheduleRecordingIndex, refVars, lang, mediaSupported, homeVars, recorders,
                 adjustReqs, nRun, nAdjust, nRec>>

RunResolve(req, data) ==
  /\ req \in runReqs
  /\ data \in RunResponses(req)
  /\ runReqs' = runReqs \ {req}
  /\ runResult' = AppliedRun(data).runResult
  /\ replyDraft' = AppliedRun(data).replyDraft
  /\ actionChecks' = AppliedRun(data).actionChecks
  /\ editedActions' = AppliedRun(data).editedActions
  /\ isProcessing' = FALSE
  /\ rescheduleLoading' = RescheduleFinally(req.owner)
  /\ latest' = IF req.id = nRun THEN data ELSE latest
  /\ earlyReturn' = "none"
  /\ notice' = <<>>
  /\ UNCHANGED <<inputText, isRecording, isConfirming, confirmResult, rescheduleInputs,
                 rescheduleRecordingIndex, refVars, lang, mediaSupported, homeVars, recorders, confirmReqs,
                 adjustReqs, nRun, nConfirm, nAdjust, nRec>>

\* variant: the rejection is reported but the processing flag is left set
RunReject_NoFinally(req) ==
  /\ req \in runReqs
  /\ runReqs' = runReqs \ {req}
  /\ isProcessing' = isProcessing
  /\ rescheduleLoading' = RescheduleFinally(req.owner)
  /\ latest' = IF req.id = nRun THEN [failed |-> TRUE] ELSE latest
  /\ earlyReturn' = "none"
  /\ notice' = <<"http.error", "autopilot.runError">>
  /\ UNCHANGED <<inputText, isRecording, isConfirming, runResult, confirmResult,
                 actionChecks, editedActions, replyDraft, rescheduleInputs,
                 rescheduleRecordingIndex, refVars, lang, mediaSupported, homeVars, recorders, confirmReqs,
                 adjustReqs, nRun, nConfirm, nAdjust, nRec>>

RunReject(req) ==
  /\ req \in runReqs
  /\ runReqs' = runReqs \ {req}
  /\ isProcessing' = FALSE
  /\ rescheduleLoading' = RescheduleFinally(req.owner)
  /\ latest' = IF req.id = nRun THEN [failed |-> TRUE] ELSE latest
  /\ earlyReturn' = "none"
  /\ notice' = <<"http.error", "autopilot.runError">>
  /\ UNCHANGED <<inputText, isRecording, isConfirming, runResult, confirmResult,
                 actionChecks, editedActions, replyDraft, rescheduleInputs,
                 rescheduleRecordingIndex, refVars, lang, mediaSupported, homeVars, recorders, confirmReqs,
                 adjustReqs, nRun, nConfirm, nAdjust, nRec>>

\* ---- Checkbox onChange: setActionChecks(prev => ({...prev, [i]: e.target.checked})) ----
SetCheck(prev, i, checked) ==
  [j \in (DOMAIN prev) \cup {i} |-> IF j = i THEN checked ELSE prev[j]]

IsChecked(checks, i) == i \in DOMAIN checks /\ checks[i]

ToggleCheck(i) ==
  /\ ResultsVisible
  /\ i \in DOMAIN editedActions
  /\ actionChecks' = SetCheck(actionChecks, i, ~IsChecked(actionChecks, i))
  /\ earlyReturn' = "none"
  /\ notice' = <<>>
  /\ UNCHANGED <<inputText, isRecording, isProcessing, isConfirming, runResult,
                 confirmResult, editedActions, replyDraft, rescheduleInputs,
                 rescheduleLoading, rescheduleRecordingIndex, refVars, envVars, homeVars>>

\* ---- handleActionPayloadEdit ----
\* variant: the payload is rebuilt from the edited field alone (no spread of the siblings)
EditedPayload_NoSpread(prev, index, field, value) ==
  [prev EXCEPT ![index] =
     [action_type |-> prev[index].action_type, payload |-> [k \in {field} |-> value]]]

EditedPayload(prev, index, field, value) ==
  [prev EXCEPT ![index] =
     [action_type |-> prev[index].action_type,
      payload |-> [k \in (DOMAIN prev[index].payload) \cup {field} |->
                     IF k = field THEN value ELSE prev[index].payload[k]]]]

handleActionPayloadEdit(index, field, value) ==
  /\ ResultsVisible
  /\ index \in DOMAIN editedActions
  /\ field \in DOMAIN editedActions[index].payload
  /\ editedActions[index].payload[field] # value
  /\ editedActions' = EditedPayload(editedActions, index, field, value)
  /\ earlyReturn' = "none"
  /\ notice' = <<>>
  /\ UNCHANGED <<inputText, isRecording, isProcessing, isConfirming, runResult,
                 confirmResult, actionChecks, replyDraft, rescheduleInputs,
                 rescheduleLoading, rescheduleRecordingIndex, refVars, envVars, homeVars>>

\* the handler called with an index the current list does not have (the list was
\* replaced by a shorter one): copy[index] is undefined, copy[index].payload throws
\* a TypeError out of the state updater, and no state is set
StaleIndices == 0..2
handleActionPayloadEditStale(index, field, value) ==
  /\ runResult # NoData
  /\ index \notin DOMAIN editedActions
  /\ earlyReturn' = "handleActionPayloadEdit.TypeError"
  /\ notice' = <<>>
  /\ UNCHANGED <<uiVars, refVars, envVars, homeVars>>

\* ---- handleConfirm ----
\* variant: skip carries the enabled flag instead of its negation
SerializedActions_SkipNotNegated(actions, checks) ==
  [i \in DOMAIN actions |->
     [action_type |-> actions[i].action_type,
      payload |-> actions[i].payload,
      confirmed |-> IsChecked(checks, i),
      skip |-> IsChecked(checks, i)]]

SerializedActions(actions, checks) ==
  [i \in DOMAIN actions |->
     [action_type |-> actions[i].action_type,
      payload |-> actions[i].payload,
      confirmed |-> IsChecked(checks, i),
      skip |-> ~IsChecked(checks, i)]]

\* variant: the call sends the preview as the analyze call returned it
ConfirmRequest_UneditedPreview ==
  [id |-> nConfirm + 1,
   run_id |-> runResult.run_id,
   actions |-> SerializedActions(ActionsPreviewOf(runResult), actionChecks)]

ConfirmRequest ==
  [id |-> nConfirm + 1,
   run_id |-> runResult.run_id,
   actions |-> SerializedActions(editedActions, actionChecks)]

HasRunId == runResult # NoData /\ runResult.run_id # NoRunId

handleConfirm ==
  /\ ResultsVisible
  /\ ~ConfirmDisabled
  /\ IF ~HasRunId
     THEN /\ earlyReturn' = "handleConfirm.noRunId"
          /\ notice' = <<>>
          /\ UNCHANGED <<uiVars, refVars, envVars, homeVars>>
     ELSE /\ nConfirm < MaxConfirms
          /\ Pending < MaxPending
          /\ isConfirming' = TRUE
          /\ confirmReqs' = confirmReqs \cup {ConfirmRequest}
          /\ nConfirm' = nConfirm + 1
          /\ earlyReturn' = "none"
          /\ notice' = <<>>
          /\ UNCHANGED <<inputText, isRecording, isProcessing, runResult, confirmResult,
                         actionChecks, editedActions, replyDraft, rescheduleInputs,
                         rescheduleLoading, rescheduleRecordingIndex, refVars, lang, mediaSupported, homeVars,
                         recorders, runReqs, adjustReqs, nRun, nAdjust, nRec, latest>>

\* variant: the service reports the actions before the first skipped one only
ConfirmResponses_StopsAtFirstSkipped(req) ==
  {[results |-> [i \in {k \in DOMAIN req.actions :
                          \A j \in DOMAIN req.actions : j <= k => req.actions[j].confirmed} |->
                   [action_type |-> req.actions[i].action_type, status |-> st[i]]]] :
     st \in [DOMAIN req.actions -> Statuses]}

\* /autopilot/confirm: one result per submitted action, in order
ConfirmResponses(req) ==
  {[results |-> [i \in DOMAIN req.actions |->
                   [action_type |-> req.actions[i].action_type, status |-> st[i]]]] :
     st \in [DOMAIN req.actions -> Statuses]}

calendarFailed(results) ==
  \E i \in DOMAIN results :
    /\ results[i].action_type = "create_meeting"
    /\ results[i].status \in {"failed", "blocked"}

ConfirmResolve(req, data) ==
  /\ req \in confirmReqs
  /\ data \in ConfirmResponses(req)
  /\ confirmReqs' = confirmReqs \ {req}
  /\ confirmResult' = data
  /\ isConfirming' = FALSE
  /\ earlyReturn' = "none"
  /\ notice' = IF calendarFailed(data.results)
               THEN <<"autopilot.confirmCalendarFailed">>
               ELSE <<"autopilot.confirmSuccess">>
  /\ UNCHANGED <<inputText, isRecording, isProcessing, runResult, actionChecks,
                 editedActions, replyDraft, rescheduleInputs, rescheduleLoading,
                 rescheduleRecordingIndex, refVars, lang, mediaSupported, homeVars, recorders, runReqs,
                 adjustReqs, nRun, nConfirm, nAdjust, nRec, latest>>

\* variant: the catch block drops the execution results on display
ConfirmReject_ClearsResults(req) ==
  /\ req \in confirmReqs
  /\ confirmReqs' = confirmReqs \ {req}
  /\ isConfirming' = FALSE
  /\ confirmResult' = NoData
  /\ earlyReturn' = "none"
  /\ notice' = <<"http.error", "autopilot.confirmError">>
  /\ UNCHANGED <<inputText, isRecording, isProcessing, runResult,
                 actionChecks, editedActions, replyDraft, rescheduleInputs,
                 rescheduleLoading, rescheduleRecordingIndex, refVars, lang, mediaSupported, homeVars,
                 recorders, runReqs, adjustReqs, nRun, nConfirm, nAdjust, nRec, latest>>

ConfirmReject(req) ==
  /\ req \in confirmReqs
  /\ confirmReqs' = confirmReqs \ {req}
  /\ isConfirming' = FALSE
  /\ earlyReturn' = "none"
  /\ notice' = <<"http.error", "autopilot.confirmError">>
  /\ UNCHANGED <<inputText, isRecording, isProcessing, runResult, confirmResult,
                 actionChecks, editedActions, replyDraft, rescheduleInputs,
                 rescheduleLoading, rescheduleRecordingIndex, refVars, lang, mediaSupported, homeVars,
                 recorders, runReqs, adjustReqs, nRun, nConfirm, nAdjust, nRec, latest>>

\* ---- capture: handleStartRecording / handleRescheduleStartRecording ----
PrimarySite == "primary"
SiteOf(index) == IF index = NoIndex THEN PrimarySite ELSE "index"

\* the values of the render in which a handler was invoked
Closure(index) ==
  IF index = NoIndex
  THEN [lang |-> lang]
  ELSE [inputText |-> inputText, editedActions |-> editedActions, lang |-> lang]

NewRecorder(index) ==
  [site |-> SiteOf(index), index |-> index, state |-> "acquiring",
   b64 |-> Absent, closure |-> Closure(index)]

StartCapture(index) ==
  IF ~mediaSupported
  THEN /\ notice' = <<"errors.browserNotSupported">>
       /\ UNCHANGED <<recorders, nRec>>
  ELSE /\ nRec < MaxRecorders
       /\ Pending < MaxPending
       /\ recorders' = [r \in (DOMAIN recorders) \cup {nRec + 1} |->
                          IF r = nRec + 1 THEN NewRecorder(index) ELSE recorders[r]]
       /\ nRec' = nRec + 1
       /\ notice' = <<>>

handleStartRecording ==
  /\ ~isProcessing
  /\ ~isRecording
  /\ StartCapture(NoIndex)
  /\ earlyReturn' = "none"
  /\ UNCHANGED <<uiVars, refVars, lang, mediaSupported, homeVars, runReqs, confirmReqs,
                 adjustReqs, nRun, nConfirm, nAdjust, latest>>

\* getUserMedia resolves: new MediaRecorder, recorder.start(), ref and state set
GetUserMediaGrant(r) ==
  /\ r \in DOMAIN recorders
  /\ recorders[r].state = "acquiring"
  /\ recorders' = [recorders EXCEPT ![r].state = "recording"]
  /\ IF recorders[r].site = PrimarySite
     THEN /\ mediaRecorderRef' = r
          /\ isRecording' = TRUE
          /\ UNCHANGED <<rescheduleRecorderRef, rescheduleRecordingIndex>>
     ELSE /\ rescheduleRecorderRef' = r
          /\ rescheduleRecordingIndex' = recorders[r].index
          /\ UNCHANGED <<mediaRecorderRef, isRecording>>
  /\ earlyReturn' = "none"
  /\ notice' = <<>>
  /\ UNCHANGED <<inputText, isProcessing, isConfirming, runResult, confirmResult,
                 actionChecks, editedActions, replyDraft, rescheduleInputs,
                 rescheduleLoading, lang, mediaSupported, homeVars, runReqs, confirmReqs,
                 adjustReqs, nRun, nConfirm, nAdjust, nRec, latest>>

Without(f, r) == [x \in (DOMAIN f) \ {r} |-> f[x]]

\* getUserMedia rejects: catch { AntMessage.error(t("errors.micDenied")) }
GetUserMediaDeny(r) ==
  /\ r \in DOMAIN recorders
  /\ recorders[r].state = "acquiring"
  /\ recorders' = Without(recorders, r)
  /\ earlyReturn' = "none"
  /\ notice' = <<"errors.micDenied">>
  /\ UNCHANGED <<uiVars, refVars, lang, mediaSupported, homeVars, runReqs, confirmReqs,
                 adjustReqs, nRun, nConfirm, nAdjust, nRec, latest>>

\* ---- handleStopRecording ----
\* the handler's body, whoever calls it
\* variant: the recording flag is flipped whether or not a recorder is held
StopRecordingCall_FlipsFlag ==
  /\ IF mediaRecorderRef # NoRecorder
     THEN /\ recorders' = [recorders EXCEPT ![mediaRecorderRef].state = "stopping"]
          /\ mediaRecorderRef' = NoRecorder
          /\ isRecording' = FALSE
          /\ earlyReturn' = "none"
     ELSE /\ isRecording' = ~isRecording
          /\ earlyReturn' = "handleStopRecording.noRecorder"
          /\ UNCHANGED <<recorders, mediaRecorderRef>>
  /\ notice' = <<>>
  /\ UNCHANGED <<inputText, isProcessing, isConfirming, runResult, confirmResult,
                 actionChecks, editedActions, replyDraft, rescheduleInputs,
                 rescheduleLoading, rescheduleRecordingIndex, rescheduleRecorderRef,
                 lang, mediaSupported, homeVars, runReqs, confirmReqs, adjustReqs,
                 nRun, nConfirm, nAdjust, nRec, latest>>

StopRecordingCall ==
  /\ IF mediaRecorderRef # NoRecorder
     THEN /\ recorders' = [recorders EXCEPT ![mediaRecorderRef].state = "stopping"]
          /\ mediaRecorderRef' = NoRecorder
          /\ isRecording' = FALSE
          /\ earlyReturn' = "none"
     ELSE /\ earlyReturn' = "handleStopRecording.noRecorder"
          /\ UNCHANGED <<recorders, mediaRecorderRef, isRecording>>
  /\ notice' = <<>>
  /\ UNCHANGED <<inputText, isProcessing, isConfirming, runResult, confirmResult,
                 actionChecks, editedActions, replyDraft, rescheduleInputs,
                 rescheduleLoading, rescheduleRecordingIndex, rescheduleRecorderRef,
                 lang, mediaSupported, homeVars, runReqs, confirmReqs, adjustReqs,
                 nRun, nConfirm, nAdjust, nRec, latest>>

\* the primary record button while it shows "stop"
handleStopRecording ==
  /\ ~isProcessing
  /\ isRecording
  /\ StopRecordingCall

\* recorder.onstop: tracks stopped, the chunks become a blob handed to a FileReader
RecorderOnStop(r, audio) ==
  /\ r \in DOMAIN recorders
  /\ recorders[r].state = "stopping"
  /\ recorders' = [recorders EXCEPT ![r].state = "reading", ![r].b64 = audio]
  /\ earlyReturn' = "none"
  /\ notice' = <<>>
  /\ UNCHANGED <<uiVars, refVars, lang, mediaSupported, homeVars, runReqs, confirmReqs,
                 adjustReqs, nRun, nConfirm, nAdjust, nRec, latest>>

\* reader.onloadend of the primary site: handleRun("audio", b64)
\* variant: the recorder and its handlers stay armed after the continuation
PrimaryOnLoadEnd_StaysArmed(r) ==
  /\ r \in DOMAIN recorders
  /\ recorders[r].state = "reading"
  /\ recorders[r].site = PrimarySite
  /\ handleRunIssue("audio", recorders[r].b64, NoText, NoText, NoIndex)
  /\ earlyReturn' = "none"
  /\ notice' = <<>>
  /\ UNCHANGED <<inputText, isRecording, isConfirming, actionChecks, editedActions,
                 replyDraft, rescheduleInputs, rescheduleLoading,
                 rescheduleRecordingIndex, refVars, lang, mediaSupported, homeVars, confirmReqs,
                 adjustReqs, nConfirm, nAdjust, nRec, recorders>>

PrimaryOnLoadEnd(r) ==
  /\ r \in DOMAIN recorders
  /\ recorders[r].state = "reading"
  /\ recorders[r].site = PrimarySite
  /\ handleRunIssue("audio", recorders[r].b64, NoText, NoText, NoIndex)
  /\ recorders' = Without(recorders, r)
  /\ earlyReturn' = "none"
  /\ notice' = <<>>
  /\ UNCHANGED <<inputText, isRecording, isConfirming, actionChecks, editedActions,
                 replyDraft, rescheduleInputs, rescheduleLoading,
                 rescheduleRecordingIndex, refVars, lang, mediaSupported, homeVars, confirmReqs,
                 adjustReqs, nConfirm, nAdjust, nRec>>

\* ---- the reschedule affordance of execution result i ----
\* variant: every blocked result gets the affordance, whatever its action type
RescheduleVisible_AnyBlocked(i) ==
  /\ ResultsVisible
  /\ confirmResult # NoData
  /\ i \in DOMAIN confirmResult.results
  /\ confirmResult.results[i].status = "blocked"

RescheduleVisible(i) ==
  /\ ResultsVisible
  /\ confirmResult # NoData
  /\ i \in DOMAIN confirmResult.results
  /\ confirmResult.results[i].status = "blocked"
  /\ confirmResult.results[i].action_type = "create_meeting"

\* rescheduleInputs[i] || "" and rescheduleLoading[i] (undefined is falsy)
DraftOf(inputs, i) == IF i \in DOMAIN inputs THEN inputs[i] ELSE <<>>
IsLoading(i) == i \in DOMAIN rescheduleLoading /\ rescheduleLoading[i]

\* variant: the new object holds the written key only (no spread of prev)
SetKey_NoSpread(prev, i, value) == [j \in {i} |-> value]

SetKey(prev, i, value) ==
  [j \in (DOMAIN prev) \cup {i} |-> IF j = i THEN value ELSE prev[j]]

\* reschedule Input onChange
SetRescheduleInput(i, txt) ==
  /\ RescheduleVisible(i)
  /\ ~IsLoading(i)
  /\ DraftOf(rescheduleInputs, i) # txt
  /\ rescheduleInputs' = SetKey(rescheduleInputs, i, txt)
  /\ earlyReturn' = "none"
  /\ notice' = <<>>
  /\ UNCHANGED <<inputText, isRecording, isProcessing, isConfirming, runResult,
                 confirmResult, actionChecks, editedActions, replyDraft,
                 rescheduleLoading, rescheduleRecordingIndex, refVars, envVars, homeVars>>

\* ---- appendToAnalyzeInput, on the inputText of the closure ----
appendToAnalyzeInput(closureInput, text) ==
  IF text = <<>> THEN <<>>
  ELSE IF closureInput # <<>> THEN closureInput \o <<"\n">> \o text ELSE text

\* ---- buildRescheduleLine ----
Tz == "America/Toronto"
Field(payload, k) == IF k \in DOMAIN payload THEN payload[k] ELSE ""
Str(v) == IF v = "" THEN <<>> ELSE <<v>>

buildRescheduleLine(action, closureLang) ==
  LET payload == action.payload
      title == IF Field(payload, "title") # "" THEN Field(payload, "title")
               ELSE IF closureLang = "zh" THEN "zh:Meeting" ELSE "Meeting"
      date == Field(payload, "date")
      start == Field(payload, "start_time")
      end == Field(payload, "end_time")
  IN IF closureLang = "zh"
     THEN Trim(<<"[zh] Reschedule update: move <">> \o Str(title) \o <<"> to ">>
               \o Str(date) \o <<" ">> \o Str(start) \o <<"-">> \o Str(end)
               \o <<" [zh](Timezone: ">> \o <<Tz>> \o <<")[zh].">>)
     ELSE Trim(<<"Reschedule update: move \"">> \o Str(title) \o <<"\" to ">>
               \o Str(date) \o <<" ">> \o Str(start) \o <<"-">> \o Str(end)
               \o <<" (Timezone: ">> \o <<Tz>> \o <<").">>)

\* ---- handleReschedule up to its await ----
AdjustRequest(index, mode, audioB64, c, drafts) ==
  [id |-> nAdjust + 1,
   index |-> index,
   mode |-> mode,
   text |-> IF mode = "audio" THEN NoText ELSE Trim(DraftOf(drafts, index)),
   audio_base64 |-> IF mode = "audio" THEN audioB64 ELSE Absent,
   action |-> c.editedActions[index],
   closure |-> [inputText |-> c.inputText, lang |-> c.lang]]

handleRescheduleIssue(index, mode, audioB64, c) ==
  IF index \notin DOMAIN c.editedActions
  THEN /\ earlyReturn' = "handleReschedule.noAction"
       /\ UNCHANGED <<rescheduleLoading, adjustReqs, nAdjust>>
  ELSE /\ nAdjust < MaxAdjusts
       /\ rescheduleLoading' = SetKey(rescheduleLoading, index, TRUE)
       /\ adjustReqs' = adjustReqs \cup
                          {AdjustRequest(index, mode, audioB64, c, rescheduleInputs)}
       /\ nAdjust' = nAdjust + 1
       /\ earlyReturn' = "none"

\* Reschedule button / onPressEnter: handleReschedule(i, "text")
ClickReschedule(i) ==
  /\ RescheduleVisible(i)
  /\ ~IsLoading(i)
  /\ Trim(DraftOf(rescheduleInputs, i)) # <<>>
  /\ Pending < MaxPending
  /\ handleRescheduleIssue(i, "text", Absent,
                           [inputText |-> inputText, editedActions |-> editedActions,
                            lang |-> lang])
  /\ notice' = <<>>
  /\ UNCHANGED <<inputText, isRecording, isProcessing, isConfirming, runResult,
                 confirmResult, actionChecks, editedActions, replyDraft,
                 rescheduleInputs, rescheduleRecordingIndex, refVars, lang,
                 mediaSupported, homeVars, recorders, runReqs, confirmReqs, nRun, nConfirm,
                 nRec, latest>>

\* ---- /autopilot/adjust-time responses ----
AdjustedMeeting ==
  [action_type |-> "create_meeting",
   payload |-> [title |-> "Demo", date |-> "2026-02-14",
                start_time |-> "15:00", end_time |-> "16:00"]]
AdjustResponses ==
  {[user_text |-> NoText, action |-> NoData],
   [user_text |-> <<"4pm">>, action |-> NoData],
   [user_text |-> <<" ", "4pm", "\n">>, action |-> NoData],
   [user_text |-> <<"4pm">>, action |-> AdjustedMeeting]}

\* (data.user_text || body.text || "").trim()
RawText(req, data) ==
  Trim(IF data.user_text # NoText /\ data.user_text # <<>> THEN data.user_text
       ELSE IF req.text # NoText THEN req.text ELSE <<>>)

\* variant: the returned action is ignored and the raw text is used
NormalizedLine_AlwaysRaw(req, data) == RawText(req, data)

NormalizedLine(req, data) ==
  IF data.action # NoData
  THEN buildRescheduleLine(data.action, req.closure.lang)
  ELSE RawText(req, data)

\* variant: the flag of the index stays set when the response yields no line
AdjustResolve_KeepsLoading(req, data) ==
  /\ req \in adjustReqs
  /\ data \in AdjustResponses
  /\ adjustReqs' = adjustReqs \ {req}
  /\ IF NormalizedLine(req, data) # <<>>
     THEN /\ inputText' = appendToAnalyzeInput(req.closure.inputText,
                                               NormalizedLine(req, data))
          /\ rescheduleInputs' = SetKey(rescheduleInputs, req.index, <<>>)
          /\ handleRunIssue("text", Absent,
                            appendToAnalyzeInput(req.closure.inputText,
                                                 NormalizedLine(req, data)),
                            req.closure.inputText, req.index)
          /\ UNCHANGED rescheduleLoading
     ELSE /\ UNCHANGED <<rescheduleLoading, inputText, rescheduleInputs, isProcessing, runResult,
                         confirmResult, runReqs, nRun, latest>>
  /\ earlyReturn' = "none"
  /\ notice' = <<>>
  /\ UNCHANGED <<isRecording, isConfirming, actionChecks, editedActions, replyDraft,
                 rescheduleRecordingIndex, refVars, lang, mediaSupported, homeVars, recorders,
                 confirmReqs, nConfirm, nAdjust, nRec>>

AdjustResolve(req, data) ==
  /\ req \in adjustReqs
  /\ data \in AdjustResponses
  /\ adjustReqs' = adjustReqs \ {req}
  /\ IF NormalizedLine(req, data) # <<>>
     THEN /\ inputText' = appendToAnalyzeInput(req.closure.inputText,
                                               NormalizedLine(req, data))
          /\ rescheduleInputs' = SetKey(rescheduleInputs, req.index, <<>>)
          /\ handleRunIssue("text", Absent,
                            appendToAnalyzeInput(req.closure.inputText,
                                                 NormalizedLine(req, data)),
                            req.closure.inputText, req.index)
          /\ UNCHANGED rescheduleLoading
     ELSE /\ rescheduleLoading' = SetKey(rescheduleLoading, req.index, FALSE)
          /\ UNCHANGED <<inputText, rescheduleInputs, isProcessing, runResult,
                         confirmResult, runReqs, nRun, latest>>
  /\ earlyReturn' = "none"
  /\ notice' = <<>>
  /\ UNCHANGED <<isRecording, isConfirming, actionChecks, editedActions, replyDraft,
                 rescheduleRecordingIndex, refVars, lang, mediaSupported, homeVars, recorders,
                 confirmReqs, nConfirm, nAdjust, nRec>>

AdjustReject(req) ==
  /\ req \in adjustReqs
  /\ adjustReqs' = adjustReqs \ {req}
  /\ rescheduleLoading' = SetKey(rescheduleLoading, req.index, FALSE)
  /\ earlyReturn' = "none"
  /\ notice' = <<"http.error", "autopilot.rescheduleError">>
  /\ UNCHANGED <<inputText, isRecording, isProcessing, isConfirming, runResult,
                 confirmResult, actionChecks, editedActions, replyDraft,
                 rescheduleInputs, rescheduleRecordingIndex, refVars, lang,
                 mediaSupported, homeVars, recorders, runReqs, confirmReqs, nRun, nConfirm,
                 nAdjust, nRec, latest>>

\* ---- capture at a reschedule index ----
handleRescheduleStartRecording(index) ==
  /\ RescheduleVisible(index)
  /\ ~IsLoading(index)
  /\ rescheduleRecordingIndex # index
  /\ StartCapture(index)
  /\ earlyReturn' = "none"
  /\ UNCHANGED <<uiVars, refVars, lang, mediaSupported, homeVars, runReqs, confirmReqs,
                 adjustReqs, nRun, nConfirm, nAdjust, latest>>

\* the handler's body, whoever calls it
RescheduleStopRecordingCall ==
  /\ IF rescheduleRecorderRef # NoRecorder
     THEN /\ recorders' = [recorders EXCEPT ![rescheduleRecorderRef].state = "stopping"]
          /\ rescheduleRecorderRef' = NoRecorder
          /\ rescheduleRecordingIndex' = NoIndex
          /\ earlyReturn' = "none"
     ELSE /\ earlyReturn' = "handleRescheduleStopRecording.noRecorder"
          /\ UNCHANGED <<recorders, rescheduleRecorderRef, rescheduleRecordingIndex>>
  /\ notice' = <<>>
  /\ UNCHANGED <<inputText, isRecording, isProcessing, isConfirming, runResult,
                 confirmResult, actionChecks, editedActions, replyDraft,
                 rescheduleInputs, rescheduleLoading, mediaRecorderRef, lang,
                 mediaSupported, homeVars, runReqs, confirmReqs, adjustReqs, nRun, nConfirm,
                 nAdjust, nRec, latest>>

\* the record button of the index that is recording
handleRescheduleStopRecording ==
  /\ RescheduleVisible(rescheduleRecordingIndex)
  /\ ~IsLoading(rescheduleRecordingIndex)
  /\ RescheduleStopRecordingCall

\* reader.onloadend of an indexed site: handleReschedule(index, "audio", b64)
RescheduleOnLoadEnd(r) ==
  /\ r \in DOMAIN recorders
  /\ recorders[r].state = "reading"
  /\ recorders[r].site # PrimarySite
  /\ handleRescheduleIssue(recorders[r].index, "audio", recorders[r].b64,
                           recorders[r].closure)
  /\ recorders' = Without(recorders, r)
  /\ notice' = <<>>
  /\ UNCHANGED <<inputText, isRecording, isProcessing, isConfirming, runResult,
                 confirmResult, actionChecks, editedActions, replyDraft,
                 rescheduleInputs, rescheduleRecordingIndex, refVars, lang,
                 mediaSupported, homeVars, runReqs, confirmReqs, nRun, nConfirm, nRec, latest>>

\* ---- the Home page ----
Greeting(l) == <<"home.greeting", l>>

\* speakWithBrowserTTS: speaks unless window.speechSynthesis is missing
speakWithBrowserTTS(env) ==
  IF env.speechSynthesis THEN [env EXCEPT !.spoken = @ + 1] ELSE env

\* what playGreetingSpeech does once the /tts call has ended without audio played
AfterBackendTTS(env) ==
  IF env.TTS_MODE = "auto" /\ env.ENABLE_BROWSER_TTS THEN speakWithBrowserTTS(env) ELSE env

\* handleStartConversation, with playGreetingSpeech up to its await
handleStartConversation ==
  /\ ~home.hasStarted
  /\ home' = [home EXCEPT !.hasStarted = TRUE,
                          !.messages = <<[role |-> "ai", text |-> Greeting(lang)]>>]
  /\ homeEnv' =
       IF homeEnv.TTS_MODE = "browser" THEN speakWithBrowserTTS(homeEnv)
       ELSE IF homeEnv.TTS_MODE \in {"backend", "auto"}
            THEN [homeEnv EXCEPT !.tts = "pending", !.ttsPosts = @ + 1]
            ELSE homeEnv
  /\ earlyReturn' = "none"
  /\ notice' = <<>>
  /\ UNCHANGED <<uiVars, refVars, envVars>>

\* /tts answers: requestBackendTTS plays data.audio_base64 and returns true, or
\* returns false
TtsResolve(audio) ==
  /\ homeEnv.tts = "pending"
  /\ homeEnv' = IF audio # "" THEN [homeEnv EXCEPT !.tts = "audio"]
                ELSE AfterBackendTTS([homeEnv EXCEPT !.tts = "noAudio"])
  /\ earlyReturn' = "none"
  /\ notice' = <<>>
  /\ UNCHANGED <<uiVars, refVars, envVars, home>>

\* variant: a failed /tts call falls back to the browser in every mode
TtsReject_AlwaysFallsBack ==
  /\ homeEnv.tts = "pending"
  /\ homeEnv' = speakWithBrowserTTS([homeEnv EXCEPT !.tts = "rejected"])
  /\ earlyReturn' = "none"
  /\ notice' = <<"http.error">>
  /\ UNCHANGED <<uiVars, refVars, envVars, home>>

\* /tts fails: the catch block of playGreetingSpeech logs the error
TtsReject ==
  /\ homeEnv.tts = "pending"
  /\ homeEnv' = AfterBackendTTS([homeEnv EXCEPT !.tts = "rejected"])
  /\ earlyReturn' = "none"
  /\ notice' = <<"http.error">>
  /\ UNCHANGED <<uiVars, refVars, envVars, home>>

\* the record button of the Home page: isRecording ? handleStopRecording : handleStartRecording
Home_handleStartRecording ==
  /\ home.hasStarted
  /\ ~home.isProcessing
  /\ ~home.isRecording
  /\ IF ~mediaSupported
     THEN /\ notice' = <<"errors.browserNotSupported">>
          /\ UNCHANGED homeEnv
     ELSE /\ homeEnv.nRec < MaxRecorders
          /\ homeEnv' = [homeEnv EXCEPT
               !.recorders = [r \in (DOMAIN homeEnv.recorders) \cup {homeEnv.nRec + 1} |->
                                IF r = homeEnv.nRec + 1 THEN "acquiring"
                                ELSE homeEnv.recorders[r]],
               !.nRec = @ + 1]
          /\ notice' = <<>>
  /\ earlyReturn' = "none"
  /\ UNCHANGED <<uiVars, refVars, envVars, home>>

Home_GetUserMediaGrant(r) ==
  /\ r \in DOMAIN homeEnv.recorders
  /\ homeEnv.recorders[r] = "acquiring"
  /\ homeEnv' = [homeEnv EXCEPT !.recorders[r] = "recording"]
  /\ home' = [home EXCEPT !.mediaRecorderRef = r, !.isRecording = TRUE]
  /\ earlyReturn' = "none"
  /\ notice' = <<>>
  /\ UNCHANGED <<uiVars, refVars, envVars>>

Home_GetUserMediaDeny(r) ==
  /\ r \in DOMAIN homeEnv.recorders
  /\ homeEnv.recorders[r] = "acquiring"
  /\ homeEnv' = [homeEnv EXCEPT !.recorders = Without(homeEnv.recorders, r)]
  /\ earlyReturn' = "none"
  /\ notice' = <<"errors.micDenied">>
  /\ UNCHANGED <<uiVars, refVars, envVars, home>>

Home_handleStopRecording ==
  /\ home.hasStarted
  /\ ~home.isProcessing
  /\ home.isRecording
  /\ IF home.mediaRecorderRef # NoRecorder
     THEN /\ homeEnv' = [homeEnv EXCEPT !.recorders[home.mediaRecorderRef] = "stopping"]
          /\ home' = [home EXCEPT !.mediaRecorderRef = NoRecorder, !.isRecording = FALSE]
     ELSE UNCHANGED <<home, homeEnv>>
  /\ earlyReturn' = "none"
  /\ notice' = <<>>
  /\ UNCHANGED <<uiVars, refVars, envVars>>

\* mediaRecorder.onstop: sendAudioToBackend(blob) up to its await
Home_RecorderOnStop(r) ==
  /\ r \in DOMAIN homeEnv.recorders
  /\ homeEnv.recorders[r] = "stopping"
  /\ homeEnv.nVoice < MaxVoice
  /\ homeEnv' = [homeEnv EXCEPT !.recorders = Without(homeEnv.recorders, r),
                                !.voiceReqs = @ \cup {homeEnv.nVoice + 1},
                                !.nVoice = @ + 1]
  /\ home' = [home EXCEPT !.isProcessing = TRUE]
  /\ earlyReturn' = "none"
  /\ notice' = <<>>
  /\ UNCHANGED <<uiVars, refVars, envVars>>

\* /voice responses
VoiceTexts == {"", "text"}
VoiceResponses == [user_text : VoiceTexts, ai_text : VoiceTexts, audio_base64 : Audios]
\* variant: the assistant's text is pushed before the user's
NewMessages_AiFirst(data) ==
  (IF data.ai_text # "" THEN <<[role |-> "ai", text |-> data.ai_text]>> ELSE <<>>)
    \o (IF data.user_text # "" THEN <<[role |-> "user", text |-> data.user_text]>> ELSE <<>>)

NewMessages(data) ==
  (IF data.user_text # "" THEN <<[role |-> "user", text |-> data.user_text]>> ELSE <<>>)
    \o (IF data.ai_text # "" THEN <<[role |-> "ai", text |-> data.ai_text]>> ELSE <<>>)

VoiceResolve(id, data) ==
  /\ id \in homeEnv.voiceReqs
  /\ data \in VoiceResponses
  /\ homeEnv' = [homeEnv EXCEPT !.voiceReqs = @ \ {id}]
  /\ home' = [home EXCEPT !.messages = @ \o NewMessages(data), !.isProcessing = FALSE]
  /\ earlyReturn' = "none"
  /\ notice' = <<>>
  /\ UNCHANGED <<uiVars, refVars, envVars>>

VoiceReject(id) ==
  /\ id \in homeEnv.voiceReqs
  /\ homeEnv' = [homeEnv EXCEPT !.voiceReqs = @ \ {id}]
  /\ home' = [home EXCEPT !.isProcessing = FALSE]
  /\ earlyReturn' = "none"
  /\ notice' = <<"http.error", "errors.processingFailed">>
  /\ UNCHANGED <<uiVars, refVars, envVars>>

\* ---- steps, grouped by component ----
AnalyzeSteps ==
  \/ \E txt \in InputTexts : SetInputText(txt)
  \/ ClickAnalyze
  \/ \E req \in runReqs : \E data \in UsualRunResponses(req) : RunResolve(req, data)
  \/ \E req \in runReqs : RunReject(req)

RegistrySteps ==
  \/ \E i \in DOMAIN editedActions : ToggleCheck(i)
  \/ \E i \in DOMAIN editedActions : \E f \in PayloadFields : \E v \in EditValues :
       handleActionPayloadEdit(i, f, v)

ConfirmSteps ==
  \/ handleConfirm
  \/ \E req \in confirmReqs : \E data \in ConfirmResponses(req) : ConfirmResolve(req, data)
  \/ \E req \in confirmReqs : ConfirmReject(req)

RecorderSteps ==
  \/ \E r \in DOMAIN recorders : GetUserMediaGrant(r)
  \/ \E r \in DOMAIN recorders : GetUserMediaDeny(r)
  \/ \E r \in DOMAIN recorders : \E audio \in Audios : RecorderOnStop(r, audio)

CaptureSteps ==
  \/ handleStartRecording
  \/ handleStopRecording
  \/ \E r \in DOMAIN recorders : PrimaryOnLoadEnd(r)

RescheduleSteps ==
  \/ \E i \in RescheduleIndices : \E txt \in DraftTexts : SetRescheduleInput(i, txt)
  \/ \E i \in RescheduleIndices : ClickReschedule(i)
  \/ \E req \in adjustReqs : \E data \in AdjustResponses : AdjustResolve(req, data)
  \/ \E req \in adjustReqs : AdjustReject(req)

RescheduleCaptureSteps ==
  \/ \E i \in RescheduleIndices : handleRescheduleStartRecording(i)
  \/ handleRescheduleStopRecording
  \/ \E r \in DOMAIN recorders : RescheduleOnLoadEnd(r)

\* the action preview registry and the confirmation executor
Next == AnalyzeSteps \/ RegistrySteps \/ ConfirmSteps
Spec == Init /\ [][Next]_vars

\* the primary capture site and the analysis pipeline
NextCapture == AnalyzeSteps \/ RecorderSteps \/ CaptureSteps
SpecCapture == Init /\ [][NextCapture]_vars

\* the reschedule recovery flow (text), with the confirmation that unlocks it
NextReschedule == AnalyzeSteps \/ ConfirmSteps \/ RescheduleSteps
SpecReschedule == Init /\ [][NextReschedule]_vars

\* every step of the page, on one input text, single-action runs, one payload
\* edit, non-empty recordings and structured corrections
NextAll ==
  \/ SetInputText(<<"hello">>)
  \/ ClickAnalyze
  \/ \E req \in runReqs :
       RunResolve(req, [run_id |-> req.id, reply_draft |-> [subject |-> req.id],
                        actions_preview |-> Arr(<<Meeting>>)])
  \/ \E req \in runReqs : RunReject(req)
  \/ \E i \in DOMAIN editedActions : ToggleCheck(i)
  \/ \E i \in DOMAIN editedActions : handleActionPayloadEdit(i, "title", "v1")
  \/ ConfirmSteps
  \/ \E r \in DOMAIN recorders : GetUserMediaGrant(r)
  \/ \E r \in DOMAIN recorders : GetUserMediaDeny(r)
  \/ \E r \in DOMAIN recorders : RecorderOnStop(r, "AUDIO")
  \/ CaptureSteps
  \/ \E i \in RescheduleIndices : SetRescheduleInput(i, <<"3pm">>)
  \/ \E i \in RescheduleIndices : ClickReschedule(i)
  \/ \E req \in adjustReqs :
       AdjustResolve(req, [user_text |-> <<"4pm">>, action |-> AdjustedMeeting])
  \/ \E req \in adjustReqs : AdjustReject(req)
  \/ RescheduleCaptureSteps
SpecAll == Init /\ [][NextAll]_vars

\* the transport settles every request: it answers, or the 100 s deadline of the
\* http client rejects it
RunSettles(id) ==
  \E req \in runReqs :
    /\ req.id = id
    /\ \/ RunReject(req)
       \/ RunResolve(req, [run_id |-> req.id, reply_draft |-> [subject |-> req.id],
                           actions_preview |-> Arr(<<Meeting>>)])
ConfirmSettles(id) ==
  \E req \in confirmReqs :
    /\ req.id = id
    /\ \/ ConfirmReject(req)
       \/ \E data \in ConfirmResponses(req) : ConfirmResolve(req, data)
AdjustSettles(id) ==
  \E req \in adjustReqs :
    /\ req.id = id
    /\ \/ AdjustReject(req)
       \/ AdjustResolve(req, [user_text |-> <<"4pm">>, action |-> AdjustedMeeting])
TransportFairness ==
  /\ \A id \in 1..MaxRuns : WF_vars(RunSettles(id))
  /\ \A id \in 1..MaxConfirms : WF_vars(ConfirmSettles(id))
  /\ \A id \in 1..MaxAdjusts : WF_vars(AdjustSettles(id))
SpecTransport == Init /\ [][NextAll]_vars /\ TransportFairness

\* the reschedule recovery flow in either language
SpecLocales == InitLocales /\ [][NextReschedule]_vars

\* the reschedule recovery flow on a run of two meetings
NextDrafts ==
  \/ SetInputText(<<"hello">>)
  \/ ClickAnalyze
  \/ \E req \in runReqs : RunResolve(req, RunDataOf(req, TwoMeetings))
  \/ \E req \in runReqs : RunReject(req)
  \/ ConfirmSteps
  \/ RescheduleSteps
  \/ handleStartRecording
  \/ \E r \in DOMAIN recorders : GetUserMediaGrant(r)
  \/ handleStopRecording
  \/ \E r \in DOMAIN recorders : RecorderOnStop(r, "AUDIO")
  \/ \E r \in DOMAIN recorders : PrimaryOnLoadEnd(r)
SpecDrafts == Init /\ [][NextDrafts]_vars

\* the reschedule recovery flow with its capture sites
NextRecovery == NextReschedule \/ RecorderSteps \/ RescheduleCaptureSteps
SpecRecovery == Init /\ [][NextRecovery]_vars

\* the reschedule recovery flow, text and voice, on single-meeting runs, with blank
\* and padded texts typed into the primary input
TypedTexts == InputTexts \cup {<<" ">>, <<"\n", " ">>}
NextTyped ==
  \/ \E txt \in TypedTexts : SetInputText(txt)
  \/ ClickAnalyze
  \/ \E req \in runReqs : RunResolve(req, RunDataOf(req, Arr(<<Meeting>>)))
  \/ \E req \in runReqs : RunReject(req)
  \/ ConfirmSteps
  \/ RescheduleSteps
  \/ \E r \in DOMAIN recorders : GetUserMediaGrant(r)
  \/ \E r \in DOMAIN recorders : RecorderOnStop(r, "AUDIO")
  \/ RescheduleCaptureSteps
SpecTyped == Init /\ [][NextTyped]_vars

\* the Home page, under every TTS configuration
NextHome ==
  \/ handleStartConversation
  \/ \E audio \in Audios : TtsResolve(audio)
  \/ TtsReject
  \/ Home_handleStartRecording
  \/ \E r \in DOMAIN homeEnv.recorders : Home_GetUserMediaGrant(r)
  \/ \E r \in DOMAIN homeEnv.recorders : Home_GetUserMediaDeny(r)
  \/ Home_handleStopRecording
  \/ \E r \in DOMAIN homeEnv.recorders : Home_RecorderOnStop(r)
  \/ \E id \in homeEnv.voiceReqs : \E data \in VoiceResponses : VoiceResolve(id, data)
  \/ \E id \in homeEnv.voiceReqs : VoiceReject(id)
SpecHome == InitHome /\ [][NextHome]_vars

\* every step of the page, in a browser with or without the capture capability
SpecDevices == InitDevices /\ [][NextAll]_vars

\* the page with payload edits that arrive for an index of a replaced list
StaleEditSteps ==
  \E index \in StaleIndices : \E f \in PayloadFields : \E v \in EditValues :
    handleActionPayloadEditStale(index, f, v)
NextStaleEdits == Next \/ StaleEditSteps
SpecStaleEdits == Init /\ [][NextStaleEdits]_vars

\* every step of the page, started only while the bounds leave room for the analyze
\* and correction calls that the recorders and corrections under way will issue
RunsReserved == Cardinality(DOMAIN recorders) + Cardinality(adjustReqs)
AdjustsReserved ==
  Cardinality({r \in DOMAIN recorders : recorders[r].site # PrimarySite})
RoomForRun == nRun + RunsReserved < MaxRuns
RoomForAdjust == nAdjust + AdjustsReserved < MaxAdjusts

NextFair ==
  \/ SetInputText(<<"hello">>)
  \/ RoomForRun /\ ClickAnalyze
  \/ \E req \in runReqs :
       RunResolve(req, [run_id |-> req.id, reply_draft |-> [subject |-> req.id],
                        actions_preview |-> Arr(<<Meeting>>)])
  \/ \E req \in runReqs : RunReject(req)
  \/ ConfirmSteps
  \/ \E r \in DOMAIN recorders : GetUserMediaGrant(r)
  \/ \E r \in DOMAIN recorders : GetUserMediaDeny(r)
  \/ \E r \in DOMAIN recorders : RecorderOnStop(r, "AUDIO")
  \/ RoomForRun /\ handleStartRecording
  \/ handleStopRecording
  \/ \E r \in DOMAIN recorders : PrimaryOnLoadEnd(r)
  \/ \E i \in RescheduleIndices : SetRescheduleInput(i, <<"3pm">>)
  \/ \E i \in RescheduleIndices : RoomForRun /\ RoomForAdjust /\ ClickReschedule(i)
  \/ \E req \in adjustReqs :
       AdjustResolve(req, [user_text |-> <<"4pm">>, action |-> AdjustedMeeting])
  \/ \E req \in adjustReqs : AdjustReject(req)
  \/ \E i \in RescheduleIndices :
       RoomForRun /\ RoomForAdjust /\ handleRescheduleStartRecording(i)
  \/ handleRescheduleStopRecording
  \/ \E r \in DOMAIN recorders : RescheduleOnLoadEnd(r)

\* the browser delivers the stop event of a stopped recorder and the loadend event
\* of its reader
RecorderFairness ==
  \A r \in 1..MaxRecorders :
    /\ WF_vars(RecorderOnStop(r, "AUDIO"))
    /\ WF_vars(PrimaryOnLoadEnd(r))
    /\ WF_vars(RescheduleOnLoadEnd(r))
SpecFair == Init /\ [][NextFair]_vars /\ RecorderFairness

\* every step of the page, and stop handlers called on a site that holds no recorder
StopCallOnIdle == mediaRecorderRef = NoRecorder /\ StopRecordingCall
RescheduleStopCallOnIdle == rescheduleRecorderRef = NoRecorder /\ RescheduleStopRecordingCall
NextStopCalls == NextAll \/ StopCallOnIdle \/ RescheduleStopCallOnIdle
SpecStopCalls == Init /\ [][NextStopCalls]_vars


(***************************************************************************)
(* Properties                                                              *)
(***************************************************************************)

\* the capture sites whose recorder is waiting for the device or recording
CapturingSites ==
  {recorders[r].index :
     r \in {x \in DOMAIN recorders : recorders[x].state \in {"acquiring", "recording"}}}

\* C1: at most one capture site (the primary one or a reschedule index) is
\* acquiring or recording at any instant
C1_AtMostOneCapturingSite == Cardinality(CapturingSites) <= 1

\* C2: once every analyze call has answered and the last issued one succeeded, the
\* visible run (run result, reply draft, action list, enabled flags) is the one of
\* the last issued call, whatever the order of the answers
C2_LastIssuedWins ==
  (runReqs = {} /\ latest # NoData /\ latest # [failed |-> TRUE]) =>
    /\ runResult = latest
    /\ replyDraft = AppliedRun(latest).replyDraft
    /\ DOMAIN editedActions = DOMAIN AppliedRun(latest).editedActions
    /\ DOMAIN actionChecks = DOMAIN AppliedRun(latest).actionChecks

\* C3: an analyze request for the primary input is issued only by a click on
\* Analyze; stopping the primary recording never issues one
C3_OnlyAnalyzeClickRuns ==
  [][(\E req \in runReqs' \ runReqs : req.owner = NoIndex) => ClickAnalyze]_vars

\* C4: when an analyze call fails, the run that was visible when the call was issued
\* (run result, action list, enabled flags, execution results) is visible unchanged
C4_FailedRunKeepsPrevious ==
  [][\A req \in runReqs :
       (RunReject(req) /\ req.before.runResult # NoData) => VisibleRun' = req.before]_vars

\* C5: a toggle or a payload-field edit keeps the list length and everything but its target
C5_EditsKeepTheRest ==
  [][/\ \A i \in DOMAIN editedActions :
          ToggleCheck(i) =>
            /\ editedActions' = editedActions
            /\ DOMAIN actionChecks' = DOMAIN actionChecks
            /\ \A j \in DOMAIN actionChecks : j # i => actionChecks'[j] = actionChecks[j]
     /\ \A i \in DOMAIN editedActions : \A f \in PayloadFields : \A v \in EditValues :
          handleActionPayloadEdit(i, f, v) =>
            /\ DOMAIN editedActions' = DOMAIN editedActions
            /\ actionChecks' = actionChecks
            /\ \A j \in DOMAIN editedActions :
                 /\ editedActions'[j].action_type = editedActions[j].action_type
                 /\ DOMAIN editedActions'[j].payload = DOMAIN editedActions[j].payload
                 /\ \A k \in DOMAIN editedActions[j].payload :
                      (j # i \/ k # f) =>
                        editedActions'[j].payload[k] = editedActions[j].payload[k]]_vars
C5_Witness ==
  /\ ResultsVisible
  /\ Length(editedActions) = 2
  /\ editedActions[0].payload["title"] = "v1"
  /\ editedActions[0].payload["date"] = "v0"
  /\ ~actionChecks[1]
  /\ actionChecks[0]

\* C6: confirm invoked on a run without a run id reports the failure with a notice
C6_NoRunIdIsReported == earlyReturn = "handleConfirm.noRunId" => notice # <<>>

\* C7: the list a confirm call sends has the length and order of the action list;
\* entry i carries action i with confirmed = enabled flag i and skip = its negation
C7_ConfirmSerializesEveryAction ==
  [][\A req \in confirmReqs' \ confirmReqs :
       /\ DOMAIN req.actions = DOMAIN editedActions
       /\ \A i \in DOMAIN editedActions :
            /\ req.actions[i].action_type = editedActions[i].action_type
            /\ req.actions[i].payload = editedActions[i].payload
            /\ req.actions[i].confirmed = IsChecked(actionChecks, i)
            /\ req.actions[i].skip = ~IsChecked(actionChecks, i)
            /\ req.actions[i].confirmed # req.actions[i].skip]_vars

C7_Witness ==
  \E req \in confirmReqs :
    /\ Length(req.actions) = 2
    /\ req.actions[0].confirmed /\ ~req.actions[0].skip
    /\ ~req.actions[1].confirmed /\ req.actions[1].skip

\* C8: a confirm request is issued only by a step of handleConfirm, invoked on a
\* displayed run through the enabled Confirm button
C8_OnlyConfirmClickExecutes ==
  [][(confirmReqs' \ confirmReqs # {}) =>
       (ResultsVisible /\ anyChecked /\ ~isConfirming /\ handleConfirm)]_vars

C8_Witness == confirmReqs # {} /\ recorders # <<>> /\ nRun = MaxRuns

C10_MergeAppendsToInput ==
  [][\A req \in adjustReqs : \A data \in AdjustResponses :
       (AdjustResolve(req, data) /\ NormalizedLine(req, data) # <<>>) =>
         /\ inputText' = IF inputText = <<>> THEN NormalizedLine(req, data)
                         ELSE inputText \o <<"\n">> \o NormalizedLine(req, data)
         /\ DraftOf(rescheduleInputs', req.index) = <<>>
         /\ Cardinality(runReqs' \ runReqs) = 1
         /\ \A r \in runReqs' \ runReqs : r.mode = "text" /\ r.text = inputText']_vars

\* C11: a capture start at a reschedule index while the primary site is recording
\* opens no second capture session (it fails instead)
C11_IndexStartRefusedWhilePrimaryRecords ==
  [][\A i \in RescheduleIndices :
       (isRecording /\ mediaRecorderRef # NoRecorder /\ handleRescheduleStartRecording(i))
         => recorders' = recorders]_vars

\* C12: a stop called on a site that holds no recorder (never started, or stopped
\* already) changes nothing of the page and starts no continuation
C12_StopOnIdleIsNoOp ==
  [][(StopCallOnIdle \/ RescheduleStopCallOnIdle) =>
       (notice' = <<>> /\ UNCHANGED <<uiVars, refVars, envVars, homeVars>>)]_vars

\* a second stop after a successful one, at each kind of site
C12_Witness ==
  /\ earlyReturn \in {"handleStopRecording.noRecorder",
                      "handleRescheduleStopRecording.noRecorder"}
  /\ \E r \in DOMAIN recorders : recorders[r].state = "stopping"

\* the continuation of recorder r: handleRun("audio") or handleReschedule(i, "audio")
Continuation(r) == PrimaryOnLoadEnd(r) \/ RescheduleOnLoadEnd(r)

C14_SuccessfulAnalyzeReplacesWholesale ==
  [][\A req \in runReqs : \A data \in RunResponses(req) :
       RunResolve(req, data) =>
         /\ runResult' = data
         /\ editedActions' =
              (IF data.actions_preview = NoArray THEN EmptyArray
               ELSE data.actions_preview)
         /\ replyDraft' =
              (IF data.reply_draft = NoData THEN EmptyObject ELSE data.reply_draft)
         /\ DOMAIN actionChecks' = DOMAIN editedActions'
         /\ \A i \in DOMAIN actionChecks' : actionChecks'[i]]_vars

\* the second run, one action long, has replaced the first and is displayed with
\* its single flag enabled
C14_Witness ==
  /\ ResultsVisible
  /\ runResult.run_id = 2
  /\ replyDraft = [subject |-> 2]
  /\ Length(editedActions) = 1
  /\ DOMAIN actionChecks = {0}
  /\ actionChecks[0]

\* C15: when an analyze call succeeds, no index is left with a non-empty correction
\* buffer or a set loading flag
C15_SuccessfulAnalyzeClearsDrafts ==
  [][\A req \in runReqs : \A data \in RunResponses(req) :
       RunResolve(req, data) =>
         /\ \A i \in DOMAIN rescheduleInputs' : rescheduleInputs'[i] = <<>>
         /\ \A i \in DOMAIN rescheduleLoading' : ~rescheduleLoading'[i]]_vars

\* C16: a payload edit for an index the current action list does not have raises
\* no error and leaves the list as it is
C16_StaleEditIsSilentNoOp ==
  [][StaleEditSteps =>
       /\ earlyReturn' # "handleActionPayloadEdit.TypeError"
       /\ editedActions' = editedActions]_vars

\* C17: the execution results put on display by a confirm call are one per action
\* that call submitted, result i being the result of submitted action i
C17_OneResultPerSubmittedAction ==
  [][\A req \in confirmReqs :
       (req \notin confirmReqs' /\ confirmResult' # confirmResult) =>
         /\ DOMAIN confirmResult'.results = DOMAIN req.actions
         /\ \A i \in DOMAIN req.actions :
              confirmResult'.results[i].action_type = req.actions[i].action_type]_vars

\* the results of a two-action confirm call, the second action skipped, on display
C17_Witness ==
  /\ ResultsVisible
  /\ confirmResult # NoData
  /\ Length(confirmResult.results) = 2
  /\ confirmResult.results[0].action_type = "create_meeting"
  /\ confirmResult.results[1].action_type = "send_slack_summary"
  /\ ~actionChecks[1]

\* the indices that hold a correction draft: a non-empty buffer, a set loading flag
\* or the recording of the indexed site
DraftIndices ==
  {i \in DOMAIN rescheduleInputs : rescheduleInputs[i] # <<>>}
    \cup {i \in DOMAIN rescheduleLoading : rescheduleLoading[i]}
    \cup ({rescheduleRecordingIndex} \ {NoIndex})

\* C18: a correction draft exists at an index only if the execution result on display
\* at that index is blocked
C18_DraftOnlyAtBlockedResult ==
  \A i \in DraftIndices :
    /\ confirmResult # NoData
    /\ i \in DOMAIN confirmResult.results
    /\ confirmResult.results[i].status = "blocked"

\* C19: the action list on display is the list of the run on display, edits aside,
\* and a confirm call carries that run's id with the payloads and flags as they
\* are when confirm is invoked
C19_ConfirmSendsCurrentRun ==
  /\ [](runResult # NoData =>
          /\ DOMAIN editedActions =
               DOMAIN (IF runResult.actions_preview = NoArray THEN EmptyArray
                       ELSE runResult.actions_preview)
          /\ \A i \in DOMAIN editedActions :
               /\ editedActions[i].action_type = runResult.actions_preview[i].action_type
               /\ DOMAIN editedActions[i].payload =
                    DOMAIN runResult.actions_preview[i].payload)
  /\ [][\A req \in confirmReqs' \ confirmReqs :
          /\ runResult # NoData
          /\ req.run_id = runResult.run_id
          /\ DOMAIN req.actions = DOMAIN editedActions
          /\ \A i \in DOMAIN editedActions :
               /\ req.actions[i].payload = editedActions[i].payload
               /\ req.actions[i].confirmed = (i \in DOMAIN actionChecks /\ actionChecks[i])]_vars

\* a confirm call in flight for the second run, carrying an edit made to it
C19_Witness ==
  /\ runResult # NoData
  /\ runResult.run_id = 2
  /\ \E req \in confirmReqs :
       /\ req.run_id = 2
       /\ req.actions[0].payload["title"] = "v1"
       /\ editedActions[0].payload["title"] = "v1"

\* C20: once the transport settles every request, no busy indicator stays set for
\* ever (processing, confirming, loading at an index), and every rejection of an
\* analyze, confirm or correction call surfaces a notice
C20_EveryCallEnds ==
  /\ isProcessing ~> ~isProcessing
  /\ isConfirming ~> ~isConfirming
  /\ \A i \in 0..1 : IsLoading(i) ~> ~IsLoading(i)
  /\ [][((\E req \in runReqs : RunReject(req))
           \/ (\E req \in confirmReqs : ConfirmReject(req))
           \/ (\E req \in adjustReqs : AdjustReject(req)))
          => notice' # <<>>]_vars

\* a correction call has ended through the rejection of the analyze call it started:
\* the notice is up and the three indicators are clear
C20_Witness ==
  /\ notice = <<"http.error", "autopilot.runError">>
  /\ nAdjust = 1
  /\ nConfirm = 1
  /\ runReqs = {} /\ confirmReqs = {} /\ adjustReqs = {}
  /\ ~isProcessing
  /\ ~isConfirming
  /\ 0 \in DOMAIN rescheduleLoading /\ ~rescheduleLoading[0]

\* C21: a failed confirm call leaves the run, the action list, the flags and the
\* execution results on display as they are and frees the Confirm button; a failed
\* correction call leaves the primary input, the buffer at its index, the run and the
\* execution results as they are, issues no analyze call and frees the index
C21_FailedCallKeepsState ==
  [][/\ \A req \in confirmReqs :
          ConfirmReject(req) =>
            /\ VisibleRun' = VisibleRun
            /\ inputText' = inputText
            /\ runReqs' = runReqs
            /\ ~isConfirming'
            /\ ConfirmDisabled' = ~anyChecked'
     /\ \A req \in adjustReqs :
          AdjustReject(req) =>
            /\ VisibleRun' = VisibleRun
            /\ inputText' = inputText
            /\ rescheduleInputs' = rescheduleInputs
            /\ runReqs' = runReqs /\ nRun' = nRun
            /\ ~IsLoading(req.index)']_vars

\* a second confirm call has failed with the results of the first still on display
\* and Confirm available again, after a failed correction that kept its buffer
C21_Witness ==
  /\ notice = <<"http.error", "autopilot.confirmError">>
  /\ ResultsVisible
  /\ confirmResult # NoData
  /\ ~ConfirmDisabled
  /\ nRun = 1
  /\ nAdjust = 1 /\ adjustReqs = {}
  /\ DraftOf(rescheduleInputs, 0) = <<"3pm">>

\* a capture start that fails: the capability is absent, or access is declined
UnsupportedStart ==
  /\ ~mediaSupported
  /\ handleStartRecording \/ \E i \in RescheduleIndices : handleRescheduleStartRecording(i)
DeclinedStart == \E r \in DOMAIN recorders : GetUserMediaDeny(r)

\* the site of a failed start: the primary one, or a reschedule index
PrimaryStartFails ==
  \/ ~mediaSupported /\ handleStartRecording
  \/ \E r \in DOMAIN recorders : recorders[r].site = PrimarySite /\ GetUserMediaDeny(r)
IndexStartFails(i) ==
  \/ ~mediaSupported /\ handleRescheduleStartRecording(i)
  \/ \E r \in DOMAIN recorders :
       recorders[r].site # PrimarySite /\ recorders[r].index = i /\ GetUserMediaDeny(r)

\* C22: a failed capture start shows a notice, changes nothing of the run, the action
\* list, the execution results and the primary input, and leaves its site idle: no
\* recorder held and no recording indicator set
C22_FailedStartLeavesSiteIdle ==
  [][/\ (UnsupportedStart \/ DeclinedStart) =>
          /\ notice' \in {<<"errors.browserNotSupported">>, <<"errors.micDenied">>}
          /\ VisibleRun' = VisibleRun
          /\ inputText' = inputText
     /\ PrimaryStartFails => (~isRecording' /\ mediaRecorderRef' = NoRecorder)
     /\ \A i \in RescheduleIndices :
          IndexStartFails(i) => rescheduleRecordingIndex' # i]_vars

\* C23: a confirm response shows exactly one notice: the calendar warning if some
\* create_meeting result is failed or blocked, and the success notice only if every
\* result is a success
C23_OneNoticePerConfirmResponse ==
  [][\A req \in confirmReqs : \A data \in ConfirmResponses(req) :
       ConfirmResolve(req, data) =>
         /\ Len(notice') = 1
         /\ (\E i \in DOMAIN data.results :
               /\ data.results[i].action_type = "create_meeting"
               /\ data.results[i].status \in {"failed", "blocked"})
              => notice' = <<"autopilot.confirmCalendarFailed">>
         /\ notice' = <<"autopilot.confirmSuccess">>
              => \A i \in DOMAIN data.results : data.results[i].status = "success"]_vars

\* C24: the continuation of a primary recording that captured nothing sends no
\* analyze request and leaves the run on display as it is
C24_EmptyRecordingSendsNothing ==
  [][\A r \in DOMAIN recorders :
       (PrimaryOnLoadEnd(r) /\ recorders[r].b64 = "") =>
         /\ runReqs' = runReqs
         /\ VisibleRun' = VisibleRun]_vars

\* the two templates of the reschedule line, for a payload with every field
EnTemplate(p) ==
  <<"Reschedule update: move \"", p.title, "\" to ", p.date, " ", p.start_time, "-",
    p.end_time, " (Timezone: ", "America/Toronto", ").">>
ZhTemplate(p) ==
  <<"[zh] Reschedule update: move <", p.title, "> to ", p.date, " ", p.start_time, "-",
    p.end_time, " [zh](Timezone: ", "America/Toronto", ")[zh].">>
ExpectedLine(req, data) ==
  IF data.action # NoData
  THEN IF req.closure.lang = "zh" THEN ZhTemplate(data.action.payload)
       ELSE EnTemplate(data.action.payload)
  ELSE IF data.user_text # NoText /\ Trim(data.user_text) # <<>>
       THEN Trim(data.user_text)
       ELSE IF req.text # NoText THEN Trim(req.text) ELSE <<>>
LastTokens(str, n) == SubSeq(str, Len(str) - n + 1, Len(str))

\* C25: the line a correction response appends is the template of the page's
\* language filled with the returned action's title, date, start-end range and the
\* timezone when the response has an action, and otherwise the returned user text
\* (or else the submitted text), trimmed; that line ends the primary input and the
\* text of the analyze call issued
C25_NormalizedLineFollowsResponse ==
  [][\A req \in adjustReqs : \A data \in AdjustResponses :
       AdjustResolve(req, data) =>
         IF ExpectedLine(req, data) = <<>>
         THEN inputText' = inputText /\ runReqs' = runReqs
         ELSE /\ Len(inputText') >= Len(ExpectedLine(req, data))
              /\ LastTokens(inputText', Len(ExpectedLine(req, data))) = ExpectedLine(req, data)
              /\ \E r \in runReqs' \ runReqs : r.text = inputText']_vars

\* the Chinese template, filled from the returned action, ends the primary input
C25_Witness ==
  /\ lang = "zh"
  /\ Len(inputText) >= 11
  /\ LastTokens(inputText, 11) = ZhTemplate(AdjustedMeeting.payload)
  /\ \E r \in runReqs : r.text = inputText

\* C26: the greeting speech follows the TTS mode: "browser" posts no /tts request;
\* "backend" never speaks through the browser, whatever the /tts call does; "auto"
\* posts the /tts request first and speaks through the browser only after that call
\* failed or returned no audio, and only with the browser fallback enabled
C26_GreetingFollowsTtsMode ==
  /\ homeEnv.TTS_MODE = "browser" => homeEnv.ttsPosts = 0
  /\ homeEnv.TTS_MODE = "backend" => homeEnv.spoken = 0
  /\ homeEnv.TTS_MODE = "auto" =>
       /\ home.hasStarted => homeEnv.ttsPosts = 1
       /\ homeEnv.spoken > 0 =>
            /\ homeEnv.tts \in {"rejected", "noAudio"}
            /\ homeEnv.ENABLE_BROWSER_TTS

\* in "auto" mode the /tts call has failed and the browser has spoken the greeting
C26_Witness ==
  /\ homeEnv.TTS_MODE = "auto"
  /\ homeEnv.tts = "rejected"
  /\ homeEnv.spoken = 1
  /\ home.messages = <<[role |-> "ai", text |-> Greeting(lang)]>>

\* the three controls of the reschedule affordance at index i, and the result it
\* belongs to
ResultPositions == 0..1
UsesRescheduleAffordance(i) ==
  \/ \E txt \in DraftTexts : SetRescheduleInput(i, txt)
  \/ ClickReschedule(i)
  \/ handleRescheduleStartRecording(i)
BlockedMeetingShown(i) ==
  /\ runResult # NoData /\ ~isProcessing
  /\ confirmResult # NoData
  /\ i \in DOMAIN confirmResult.results
  /\ confirmResult.results[i].status = "blocked"
  /\ confirmResult.results[i].action_type = "create_meeting"

\* C27: the reschedule affordance is used at index i only on a displayed result i
\* that is a blocked create_meeting, and every such result offers it (its input
\* takes text unless the index is loading)
C27_AffordanceOnlyAtBlockedMeeting ==
  /\ [][\A i \in ResultPositions :
          UsesRescheduleAffordance(i) => BlockedMeetingShown(i)]_vars
  /\ [](\A i \in ResultPositions :
          (BlockedMeetingShown(i) /\ ~IsLoading(i)) =>
             ENABLED (\E txt \in DraftTexts : SetRescheduleInput(i, txt)))

\* a blocked create_meeting with its buffer in use, next to a blocked result of
\* another action type that has no buffer
C27_Witness ==
  /\ BlockedMeetingShown(0)
  /\ DraftOf(rescheduleInputs, 0) = <<"3pm">>
  /\ 1 \in DOMAIN confirmResult.results
  /\ confirmResult.results[1].status = "blocked"
  /\ confirmResult.results[1].action_type = "send_slack_summary"
  /\ rescheduleRecordingIndex = 0

\* the operations on the correction draft of index i: typing into its buffer,
\* submitting it, the end of its correction call, and the end of the analyze call
\* that the correction started
DraftOperation(i) ==
  \/ \E txt \in DraftTexts : SetRescheduleInput(i, txt)
  \/ ClickReschedule(i)
  \/ \E req \in adjustReqs :
       /\ req.index = i
       /\ AdjustReject(req) \/ \E data \in AdjustResponses : AdjustResolve(req, data)
  \/ \E req \in runReqs :
       /\ req.owner = i
       /\ RunReject(req) \/ \E data \in RunResponses(req) : RunResolve(req, data)

\* C28: an operation on the draft of index i leaves the buffer and the loading flag
\* of every other index, and the recording state of the primary site, as they are
C28_DraftsAreIndependent ==
  [][\A i \in ResultPositions :
       DraftOperation(i) =>
         /\ \A j \in ResultPositions \ {i} :
              /\ DraftOf(rescheduleInputs', j) = DraftOf(rescheduleInputs, j)
              /\ IsLoading(j)' = IsLoading(j)
         /\ isRecording' = isRecording
         /\ mediaRecorderRef' = mediaRecorderRef]_vars

\* index 1 is loading while index 0 keeps its buffer and the primary site records
C28_Witness ==
  /\ DraftOf(rescheduleInputs, 0) = <<"3pm">>
  /\ IsLoading(1)
  /\ ~IsLoading(0)
  /\ isRecording
  /\ mediaRecorderRef # NoRecorder

\* the edits two calls of handleActionPayloadEdit can make to the list on display
EditedValues == {"v0", "v1", "v2"}
PayloadEdits ==
  {e \in [index : DOMAIN editedActions, field : PayloadFields, value : EditedValues] :
     e.field \in DOMAIN editedActions[e.index].payload}
Edited(actions, e) == EditedPayload(actions, e.index, e.field, e.value)

\* C29: two payload edits at different indices or different fields give the same
\* list in either order, and two edits of the same field of the same action leave
\* the value of the later one
C29_EditsCommuteLastWriteWins ==
  \A e1 \in PayloadEdits : \A e2 \in PayloadEdits :
    /\ (e1.index # e2.index \/ e1.field # e2.field) =>
         Edited(Edited(editedActions, e1), e2) = Edited(Edited(editedActions, e2), e1)
    /\ (e1.index = e2.index /\ e1.field = e2.field) =>
         /\ Edited(Edited(editedActions, e1), e2) = Edited(editedActions, e2)
         /\ Edited(Edited(editedActions, e1), e2)[e2.index].payload[e2.field] = e2.value

\* both fields of the first of two actions have been edited
C29_Witness ==
  /\ ResultsVisible
  /\ Length(editedActions) = 2
  /\ editedActions[0].payload["title"] = "v1"
  /\ editedActions[0].payload["date"] = "v1"

\* C30: the processing indicator is set in every state in which an analyze request
\* is in flight; the completion of one of two overlapping requests does not clear it
C30_ProcessingWhileRunInFlight == runReqs # {} => isProcessing

\* C31: execution results on display were produced by a confirm call made for the
\* run on display: a confirm response applied after a newer analyze has replaced the
\* run is not shown against that run
C31_ResultsBelongToVisibleRun ==
  [][\A req \in confirmReqs :
       (\E data \in ConfirmResponses(req) : ConfirmResolve(req, data)) =>
         ((ResultsVisible' /\ confirmResult' # NoData) =>
            runResult'.run_id = req.run_id)]_vars

\* the text a is the beginning of the text b
StartsWith(b, a) == Len(a) <= Len(b) /\ SubSeq(b, 1, Len(a)) = a

\* C32: a reschedule merge appends to the primary input as it is when the response
\* is merged: what the input holds at that moment is still at the start of the input
\* and of the text of the analyze call the merge issues
C32_MergeKeepsInterveningText ==
  [][\A req \in adjustReqs : \A data \in AdjustResponses :
       (AdjustResolve(req, data) /\ NormalizedLine(req, data) # <<>>) =>
         /\ StartsWith(inputText', inputText)
         /\ \A r \in runReqs' \ runReqs : StartsWith(r.text, inputText)]_vars

\* C33: every recorder that has been started and not yet stopped is the one a stop
\* affordance acts on: it is held by the ref of the primary site or by the ref of
\* the reschedule sites
C33_RunningRecorderIsHeld ==
  \A r \in DOMAIN recorders :
    recorders[r].state = "recording" => r \in {mediaRecorderRef, rescheduleRecorderRef}

\* C34: a correction request issued for index i carries the action at index i of the
\* run on display when the request is issued, whether it is issued by the Reschedule
\* button or by the recorder of a voice reschedule
C34_AdjustCarriesVisibleAction ==
  [][\A req \in adjustReqs' \ adjustReqs :
       /\ req.index \in DOMAIN editedActions
       /\ req.action = editedActions[req.index]]_vars

\* C35: at most one confirm request is in flight, and while one is pending the Confirm
\* button is disabled, also when an analyze in between has hidden the results view
\* and shown it again
C35_OneConfirmInFlight ==
  /\ Cardinality(confirmReqs) <= 1
  /\ confirmReqs # {} => (isConfirming /\ ConfirmDisabled /\ ~ENABLED handleConfirm)

\* a confirm call is pending under the results of a newer run, with an action enabled
C35_Witness ==
  /\ ResultsVisible
  /\ anyChecked
  /\ HasRunId
  /\ \E req \in confirmReqs : req.run_id # runResult.run_id

\* C36: every action list submitted for confirmation has at least one entry with
\* confirmed = true (Confirm can be invoked only while an action is enabled)
C36_SubmittedListHasConfirmedEntry ==
  \A req \in confirmReqs : \E i \in DOMAIN req.actions : req.actions[i].confirmed

\* a submitted list whose first entry is skipped and whose second is confirmed
C36_Witness ==
  \E req \in confirmReqs :
    /\ Length(req.actions) = 2
    /\ ~req.actions[0].confirmed
    /\ req.actions[1].confirmed

\* C37: a correction response that yields an empty normalized line changes nothing:
\* the primary input and the draft buffers are as before, no analyze call is issued,
\* and the loading flag of the index is cleared
C37_EmptyLineChangesNothing ==
  [][\A req \in adjustReqs : \A data \in AdjustResponses :
       (AdjustResolve(req, data) /\ NormalizedLine(req, data) = <<>>) =>
         /\ inputText' = inputText
         /\ rescheduleInputs' = rescheduleInputs
         /\ runReqs' = runReqs /\ nRun' = nRun
         /\ ~IsLoading(req.index)'
         /\ req.index \in DOMAIN rescheduleLoading']_vars

\* the correction of index 0 has ended without a merge: the input and the draft are
\* as they were, no second analyze call exists and the flag of the index is cleared
C37_Witness ==
  /\ nAdjust = 1 /\ adjustReqs = {}
  /\ nRun = 1 /\ runReqs = {}
  /\ inputText = <<"hello">>
  /\ DraftOf(rescheduleInputs, 0) = <<"3pm">>
  /\ 0 \in DOMAIN rescheduleLoading /\ ~rescheduleLoading[0]
  /\ nRec >= 1 /\ recorders = <<>>
  /\ notice = <<>>

\* C38: every text-mode analyze request carries text that is not blank, and Analyze
\* cannot be invoked while the primary input is blank
C38_TextRequestsAreNotBlank ==
  /\ \A req \in runReqs :
       req.mode = "text" => (req.text # NoText /\ Trim(req.text) # <<>>)
  /\ Trim(inputText) = <<>> => ~ENABLED ClickAnalyze

\* an analyze call issued by a reschedule while the primary input was blank: its
\* text begins with the blank and holds the merged line
C38_Witness ==
  \E req \in runReqs :
    /\ req.mode = "text"
    /\ req.owner = 0
    /\ Head(req.text) = " "
    /\ Len(req.text) = 3

\* C39: on the Home page at most one /voice request is in flight and at most one
\* recorder is recording, whatever the order of clicks, grants and stop events
C39_HomeOneRequestOneRecorder ==
  /\ Cardinality(homeEnv.voiceReqs) <= 1
  /\ Cardinality({r \in DOMAIN homeEnv.recorders : homeEnv.recorders[r] = "recording"}) <= 1

\* the messages a step has put after those on display
Appended == SubSeq(home.messages', Len(home.messages) + 1, Len(home.messages'))

\* C40: on the Home page the first message of a started conversation is the fixed
\* greeting; every step keeps the messages on display as they are and at most adds
\* some after them; a /voice response adds the user's text and then the assistant's
\* text (each when the response has it), and a failed /voice request adds nothing
C40_MessagesOnlyGrow ==
  /\ [](home.hasStarted =>
          /\ home.messages # <<>>
          /\ home.messages[1] = [role |-> "ai", text |-> Greeting(lang)])
  /\ [](~home.hasStarted => home.messages = <<>>)
  /\ [][StartsWith(home.messages', home.messages)]_vars
  /\ [][\A id \in homeEnv.voiceReqs : \A data \in VoiceResponses :
          VoiceResolve(id, data) =>
            /\ StartsWith(home.messages', home.messages)
            /\ Len(Appended) = (IF data.user_text # "" THEN 1 ELSE 0)
                                 + (IF data.ai_text # "" THEN 1 ELSE 0)
            /\ data.user_text # "" =>
                 Appended[1] = [role |-> "user", text |-> data.user_text]
            /\ data.ai_text # "" =>
                 Appended[Len(Appended)] = [role |-> "ai", text |-> data.ai_text]]_vars
  /\ [][\A id \in homeEnv.voiceReqs :
          VoiceReject(id) => home.messages' = home.messages]_vars

\* the greeting, then a response with both texts, then a response with the
\* assistant's text only
C40_Witness ==
  /\ Len(home.messages) = 4
  /\ home.messages[1].text = Greeting(lang)
  /\ home.messages[2].role = "user"
  /\ home.messages[3].role = "ai"
  /\ home.messages[4].role = "ai"
  /\ homeEnv.voiceReqs = {}
====
